---- MODULE Spec2Model ----
(***************************************************************************)
(* Model of src/main.py: a Streamlit script that queries SerpAPI, asks an  *)
(* OpenAI chat model for a competitive analysis of the results, saves the  *)
(* rows and the summary to disk, and renders them.                         *)
(*                                                                         *)
(* One run of main() is a sequence of steps driven by pc; the two HTTP     *)
(* collaborators are the environment: their answers are drawn from small   *)
(* sets.  The files on disk persist from run to run, everything else is    *)
(* rebuilt by each run.  The two time.sleep(2) calls and the spinners      *)
(* around the calls change no state and are left out.                      *)
(*                                                                         *)
(* A text is a string of the characters U+0001..U+007F but the grave       *)
(* accent U+0060, which a string of this module cannot hold; a backslash   *)
(* in it is a backslash.                                                   *)
(* The literals of the page that hold an emoji (the headings, the button,  *)
(* the warning) stand for it by the text str.encode("unicode_escape")      *)
(* gives, \U0001f50d for U+1F50D; none of them reaches json.dump or to_csv.*)
(***************************************************************************)
EXTENDS Integers, Sequences, FiniteSets, TLC

VARIABLES
    pc,              \* position of the current run of main()
    mode,            \* st.sidebar.radio("Choose Theme", ...)
    query,           \* st.text_input("Keyword:")
    analyze_button,  \* st.button("Analyze")
    response,        \* the answer to requests.get held by get_search_results
    data,            \* main(): data
    summary,         \* main(): summary
    chat,            \* what the chat completion call of summarize_data did
    gets,            \* GET requests sent to the search API in this run
    prompts,         \* chat requests sent to the summarization API in this run
    events,          \* the side effects of this run, in the order they happened
    screen,          \* what this run has rendered, in order
    csvFile,         \* content of competitive_analysis.csv
    jsonFile,        \* content of competitive_analysis.json
    good,            \* history: rows and summary of the last run that had rows
    csv_quotes_cr    \* the interpreter's csv module quotes a carriage return

vars == <<pc, mode, query, analyze_button, response, data, summary, chat,
          gets, prompts, events, screen, csvFile, jsonFile, good, csv_quotes_cr>>

-----------------------------------------------------------------------------
(* Bounds and input domains *)

MaxResults == 2

num_results == 5

Modes == {"Light", "Dark"}

Queries == {"", "crm"}

\* organic_results entries: any of title/link/snippet may be missing; each
\* key is present in one entry and missing in the other; the snippet has
\* quotes and a comma
Items ==
    { [title |-> "Acme", snippet |-> "CRM \"suite\", fast"],
      [link |-> "bolt.dev"] }

ItemLists == UNION { [1..n -> Items] : n \in 0..MaxResults }

Bodies ==
    { [search_metadata |-> "Success", organic_results |-> l] : l \in ItemLists }
    \cup { [search_metadata |-> "Success"], [error |-> "Invalid API key."] }

\* bodies of the answers with an error status; some carry results all the same
ErrorBodies ==
    { [error |-> "Invalid API key."] }
    \cup { [search_metadata |-> "Success", organic_results |-> <<i>>] : i \in Items }

StatusCodes == {200, 401}

Responses ==
    [status_code : {200}, body : Bodies]
    \cup [status_code : StatusCodes \ {200}, body : ErrorBodies]

\* what openai.chat.completions.create does: return a completion, or raise
Completions ==
    { [kind |-> "ok", content |-> "Acme leads.\nBolt follows."],
      [kind |-> "raise", error |-> "Connection error: C:\\x86"] }

\* a file that does not exist
Absent == [encoding |-> "none", text |-> ""]

\* before the calls are made
NoResponse == [status_code |-> 0, body |-> [error |-> "no request sent"]]

NoCompletion == [kind |-> "none"]

-----------------------------------------------------------------------------
(* dict.get(key, default) *)
Get(d, k, default) == IF k \in DOMAIN d THEN d[k] ELSE default

(* str.join *)
Join(sep, parts) ==
    LET joined[i \in 0..Len(parts)] ==
            IF i = 0 THEN ""
            ELSE IF i = 1 THEN parts[1]
            ELSE joined[i - 1] \o sep \o parts[i]
    IN  joined[Len(parts)]

(* Mutation of Row: the link is read from the wrong key *)
Row_WrongKey(item) ==
    [Title   |-> Get(item, "title", "No title"),
     Link    |-> Get(item, "title", "No link"),
     Snippet |-> Get(item, "snippet", "No description available")]

(* get_search_results: the loop body, one row per organic result *)
Row(item) ==
    [Title   |-> Get(item, "title", "No title"),
     Link    |-> Get(item, "link", "No link"),
     Snippet |-> Get(item, "snippet", "No description available")]

(* the query parameters of the GET (the API key comes from the environment) *)
Params(q, num) == [q |-> q, hl |-> "en", gl |-> "us", num |-> num]

Rows(items) == [i \in 1..Len(items) |-> Row(items[i])]

ErrorFetching == "Error fetching search results. Please check your API key and connection."

(* Mutation of get_search_results: a failed GET is sent a second time *)
get_search_results_Retry(q, num, resp) ==
    IF resp.status_code # 200
    THEN [ret      |-> <<>>,
          requests |-> <<Params(q, num), Params(q, num)>>,
          effects  |-> <<"requests.get", "requests.get", "st.error">>,
          shown    |-> <<[kind |-> "error", text |-> ErrorFetching]>>]
    ELSE [ret      |-> Rows(Get(resp.body, "organic_results", <<>>)),
          requests |-> <<Params(q, num)>>,
          effects  |-> <<"requests.get", "response.json">>,
          shown    |-> <<>>]

(* Mutation of get_search_results: the status code is not looked at *)
get_search_results_NoStatusCheck(q, num, resp) ==
    [ret      |-> Rows(Get(resp.body, "organic_results", <<>>)),
     requests |-> <<Params(q, num)>>,
     effects  |-> <<"requests.get", "response.json">>,
     shown    |-> <<>>]

(* get_search_results(query, num_results), given the answer resp to its GET *)
get_search_results(q, num, resp) ==
    IF resp.status_code # 200
    THEN [ret      |-> <<>>,
          requests |-> <<Params(q, num)>>,
          effects  |-> <<"requests.get", "st.error">>,
          shown    |-> <<[kind |-> "error", text |-> ErrorFetching]>>]
    ELSE [ret      |-> Rows(Get(resp.body, "organic_results", <<>>)),
          requests |-> <<Params(q, num)>>,
          effects  |-> <<"requests.get", "response.json">>,
          shown    |-> <<>>]

NoDataText == "No relevant data found for analysis."

SystemPrompt == "You are an AI specializing in competitive analysis."

ContentLines(d) ==
    [i \in 1..Len(d) |-> d[i].Title \o ": " \o d[i].Snippet \o " (" \o d[i].Link \o ")"]

(* Mutation of summarize_data: the error is dropped from the text *)
summarize_data_NoDetail(d, completion) ==
    IF d = <<>>
    THEN [ret |-> NoDataText, requests |-> <<>>, effects |-> <<>>]
    ELSE
      LET content == Join("\n", ContentLines(d))
          prompt  == "Perform a competitive analysis based on these results: " \o content
          request == [model    |-> "gpt-4-turbo",
                      messages |-> <<[role |-> "system", content |-> SystemPrompt],
                                     [role |-> "user", content |-> prompt]>>]
      IN  [ret      |-> IF completion.kind = "ok" THEN completion.content
                        ELSE "Error generating AI summary",
           requests |-> <<request>>,
           effects  |-> <<"openai.create">>]

(* summarize_data(data), given what the chat completion call does *)
summarize_data(d, completion) ==
    IF d = <<>>
    THEN [ret |-> NoDataText, requests |-> <<>>, effects |-> <<>>]
    ELSE
      LET content == Join("\n", ContentLines(d))
          prompt  == "Perform a competitive analysis based on these results: " \o content
          request == [model    |-> "gpt-4-turbo",
                      messages |-> <<[role |-> "system", content |-> SystemPrompt],
                                     [role |-> "user", content |-> prompt]>>]
      IN  IF completion.kind = "ok"
          THEN [ret      |-> completion.content,
                requests |-> <<request>>,
                effects  |-> <<"openai.create">>]
          ELSE [ret      |-> "Error generating AI summary: " \o completion.error,
                requests |-> <<request>>,
                effects  |-> <<"openai.create">>]

(* pd.DataFrame(list of dicts): the columns are the keys, one line per dict *)
Columns == <<"Title", "Link", "Snippet">>

Lines(d) == [r \in 1..Len(d) |-> [i \in 1..Len(Columns) |-> d[r][Columns[i]]]]

DataFrame(d) ==
    IF d = <<>> THEN [columns |-> <<>>, values |-> <<>>]
    ELSE [columns |-> Columns, values |-> Lines(d)]

(* csv.writer as to_csv sets it up (QUOTE_MINIMAL, line terminator         *)
(* os.linesep, "\n" here): a field holding the delimiter, the quote        *)
(* character or a line feed is put in quotes, its quotes doubled.  A       *)
(* carriage return makes a field quoted under the interpreters whose csv   *)
(* module quotes it whatever the line terminator (Python 3.13 on), and     *)
(* not under the others.                                                   *)
DoubleQuotes(text) ==
    LET doubled[i \in 0..Len(text)] ==
            IF i = 0 THEN ""
            ELSE doubled[i - 1]
                 \o (IF SubSeq(text, i, i) = "\"" THEN "\"\"" ELSE SubSeq(text, i, i))
    IN  doubled[Len(text)]

CsvField(text) ==
    IF \E i \in 1..Len(text) :
           SubSeq(text, i, i) \in {",", "\"", "\n"} \cup (IF csv_quotes_cr THEN {"\r"} ELSE {})
    THEN "\"" \o DoubleQuotes(text) \o "\""
    ELSE text

(* a line of one empty field is written as a pair of quotes *)
CsvLine(fields) ==
    IF fields = <<"">> THEN "\"\"\n"
    ELSE Join(",", [i \in 1..Len(fields) |-> CsvField(fields[i])]) \o "\n"

(* DataFrame.to_csv(index=False): a header line, then one line per row *)
CsvLines(ls) == Join("", [i \in 1..Len(ls) |-> CsvLine(ls[i])])

to_csv(df) == CsvLine(df.columns) \o CsvLines(df.values)

(* the bytes of a text in UTF-8 *)
encode(text) == [encoding |-> "utf-8", text |-> text]

(* json.dump (ensure_ascii): a string literal.  Every character that is    *)
(* the quote, the backslash or outside U+0020..U+007E is replaced by its   *)
(* escape, the rest is kept.  A text of this module holds the characters   *)
(* U+0001..U+007F but U+0060; JsonCode gives what is written for every     *)
(* other code point too.                                                   *)
HexDigits == "0123456789abcdef"

(* the characters U+0001..U+005F and U+0061..U+007F in the order of their  *)
(* code points                                                             *)
CharsBelow == "\t\n\f\r !\"#$%&'()*+,-./0123456789:;<=>?@ABCDEFGHIJKLMNOPQRSTUVWXYZ[\\]^_"

CharsAbove == "abcdefghijklmnopqrstuvwxyz{|}~"

ord(c) ==
    IF \E k \in 1..Len(CharsBelow) : SubSeq(CharsBelow, k, k) = c
    THEN CHOOSE k \in 1..Len(CharsBelow) : SubSeq(CharsBelow, k, k) = c
    ELSE 96 + (CHOOSE k \in 1..Len(CharsAbove) : SubSeq(CharsAbove, k, k) = c)

chr(n) ==
    IF n < 96 THEN SubSeq(CharsBelow, n, n)
    ELSE SubSeq(CharsAbove, n - 96, n - 96)

(* '{0:04x}'.format(n) *)
Hex4(n) ==
    SubSeq(HexDigits, ((n \div 4096) % 16) + 1, ((n \div 4096) % 16) + 1)
    \o SubSeq(HexDigits, ((n \div 256) % 16) + 1, ((n \div 256) % 16) + 1)
    \o SubSeq(HexDigits, ((n \div 16) % 16) + 1, ((n \div 16) % 16) + 1)
    \o SubSeq(HexDigits, (n % 16) + 1, (n % 16) + 1)

(* what stands in the literal for the character with code point n *)
JsonCode(n) ==
    CASE n = 34 -> "\\\""
      [] n = 92 -> "\\\\"
      [] n = 8  -> "\\b"
      [] n = 9  -> "\\t"
      [] n = 10 -> "\\n"
      [] n = 12 -> "\\f"
      [] n = 13 -> "\\r"
      [] n >= 32 /\ n <= 126 /\ n \notin {34, 92, 96} -> chr(n)
      [] n >= 65536 ->
             "\\u" \o Hex4(55296 + (((n - 65536) \div 1024) % 1024))
             \o "\\u" \o Hex4(56320 + ((n - 65536) % 1024))
      [] n < 32 /\ n \notin {8, 9, 10, 12, 13} -> "\\u" \o Hex4(n)
      [] n > 126 /\ n < 65536 -> "\\u" \o Hex4(n)

JsonChar(c) == JsonCode(ord(c))

(* the characters of a text that have an escape *)
Escaped == {chr(n) : n \in (1..31) \cup {34, 92, 127}}

(* every character that has an escape is replaced by it, the rest is kept *)
JsonEscape(text) ==
    LET esc[i \in 0..Len(text)] ==
            IF i = 0 THEN ""
            ELSE esc[i - 1] \o (IF SubSeq(text, i, i) \in Escaped
                                THEN JsonChar(SubSeq(text, i, i))
                                ELSE SubSeq(text, i, i))
    IN  IF \E i \in 1..Len(text) : SubSeq(text, i, i) \in Escaped
        THEN esc[Len(text)]
        ELSE text

JsonString(text) == "\"" \o JsonEscape(text) \o "\""

(* json.dump(obj, f, indent=4) of {"results": [...], "summary": "..."} *)
JsonRow(r) ==
    "        {\n"
    \o "            \"Title\": " \o JsonString(r.Title) \o ",\n"
    \o "            \"Link\": " \o JsonString(r.Link) \o ",\n"
    \o "            \"Snippet\": " \o JsonString(r.Snippet) \o "\n"
    \o "        }"

JsonRows(d) == [i \in 1..Len(d) |-> JsonRow(d[i])]

json_dump(obj) ==
    "{\n"
    \o "    \"results\": "
    \o (IF obj.results = <<>> THEN "[]"
        ELSE "[\n" \o Join(",\n", JsonRows(obj.results)) \o "\n    ]")
    \o ",\n"
    \o "    \"summary\": " \o JsonString(obj.summary) \o "\n"
    \o "}"

(* Mutation of save_results: to_csv without index=False *)
RECURSIVE IndexedLines(_, _)
IndexedLines(ls, i) ==
    IF ls = <<>> THEN <<>>
    ELSE <<<<ToString(i)>> \o Head(ls)>> \o IndexedLines(Tail(ls), i + 1)

save_results_WithIndex(d, s) ==
    [csv     |-> encode(to_csv([columns |-> <<"">> \o DataFrame(d).columns,
                                values  |-> IndexedLines(DataFrame(d).values, 0)])),
     json    |-> encode(json_dump([results |-> d, summary |-> s])),
     effects |-> <<"to_csv", "json.dump">>]

(* Mutation of save_results: existing files are kept, not overwritten *)
save_results_KeepsOld(d, s) ==
    [csv     |-> IF csvFile = Absent THEN encode(to_csv(DataFrame(d))) ELSE csvFile,
     json    |-> IF jsonFile = Absent
                 THEN encode(json_dump([results |-> d, summary |-> s]))
                 ELSE jsonFile,
     effects |-> <<"to_csv", "json.dump">>]

(* save_results(data, summary): the two files it writes *)
save_results(d, s) ==
    [csv     |-> encode(to_csv(DataFrame(d))),
     json    |-> encode(json_dump([results |-> d, summary |-> s])),
     effects |-> <<"to_csv", "json.dump">>]

(* visualize_data(data): a horizontal bar per title, bar i of length i-1 *)
Titles(d) == [i \in 1..Len(d) |-> d[i].Title]

visualize_data(d) ==
    [kind   |-> "pyplot",
     titles |-> Titles(d),
     values |-> [i \in 1..Len(d) |-> i - 1],
     xlabel |-> "Competitors",
     ylabel |-> "Ranking",
     title  |-> "Competitor Analysis Visualization"]

theme_class(m) == IF m = "Light" THEN "light-mode" ELSE "dark-mode"

WarningText == "\\u26a0\\ufe0f No results found. Try a different search term."

-----------------------------------------------------------------------------
(* main(): control flow *)

(* Mutation of AfterInputs: "or" for "and" *)
AfterInputs_Or(button, q) == IF button \/ q # "" THEN "search" ELSE "close"

(* line 135: if analyze_button and query *)
AfterInputs(button, q) == IF button /\ q # "" THEN "search" ELSE "close"

(* Mutation of AfterSearch: the test for rows is missing *)
AfterSearch_Unchecked(d) == "summarize"

(* Mutation of AfterSearch: the test for rows is inverted *)
AfterSearch_Inverted(d) == IF d = <<>> THEN "summarize" ELSE "warn"

(* lines 140 and 162: if data ... else *)
AfterSearch(d) == IF d # <<>> THEN "summarize" ELSE "warn"

(* lines 143-161: the statements of the branch taken when data is not empty *)
Branch == <<"summarize", "save", "report", "table", "chart", "download", "close">>

(* Mutation of AfterStep: the report is rendered before the files are saved *)
AfterStep_RenderFirst(p) ==
    LET order == <<"summarize", "report", "save", "table", "chart", "download", "close">>
        i == CHOOSE j \in 1..Len(order) : order[j] = p
    IN  IF i < Len(order) THEN order[i + 1] ELSE "done"

AfterStep(p) ==
    LET i == CHOOSE j \in 1..Len(Branch) : Branch[j] = p
    IN  IF i < Len(Branch) THEN Branch[i + 1] ELSE "done"

NoGood == [data |-> <<>>, summary |-> ""]

Init ==
    /\ pc = "idle"
    /\ mode = "Light"
    /\ query = ""
    /\ analyze_button = FALSE
    /\ response = NoResponse
    /\ data = <<>>
    /\ summary = ""
    /\ chat = NoCompletion
    /\ gets = <<>>
    /\ prompts = <<>>
    /\ events = <<>>
    /\ screen = <<>>
    /\ csvFile = Absent
    /\ jsonFile = Absent
    /\ good = NoGood
    /\ csv_quotes_cr \in BOOLEAN

(* lines 77-120: the style sheet handed to st.markdown *)
StyleSheet ==
    "\n"
    \o "        <style>\n"
    \o "        .stApp {\n"
    \o "            font-family: 'Arial', sans-serif;\n"
    \o "        }\n"
    \o "        .stButton>button {\n"
    \o "            background-color: #1e88e5;\n"
    \o "            color: white;\n"
    \o "            padding: 12px 24px;\n"
    \o "            border-radius: 8px;\n"
    \o "            font-size: 18px;\n"
    \o "            transition: 0.3s ease-in-out;\n"
    \o "        }\n"
    \o "        .stButton>button:hover {\n"
    \o "            background-color: #1565c0;\n"
    \o "            transform: scale(1.05);\n"
    \o "        }\n"
    \o "        .light-mode {\n"
    \o "            background-color: #ffffff;\n"
    \o "            color: #000000;\n"
    \o "        }\n"
    \o "        .dark-mode {\n"
    \o "            background-color: #121212;\n"
    \o "            color: #ffffff;\n"
    \o "            transition: all 0.5s ease-in-out;\n"
    \o "        }\n"
    \o "        .fade-in {\n"
    \o "            animation: fadeIn 1s ease-in-out;\n"
    \o "        }\n"
    \o "        @keyframes fadeIn {\n"
    \o "            from { opacity: 0; }\n"
    \o "            to { opacity: 1; }\n"
    \o "        }\n"
    \o "        .custom-table th, .custom-table td {\n"
    \o "            border: 1px solid #ddd;\n"
    \o "            padding: 8px;\n"
    \o "            text-align: left;\n"
    \o "        }\n"
    \o "        .custom-table th {\n"
    \o "            background-color: #1e1e1e;\n"
    \o "            color: white;\n"
    \o "        }\n"
    \o "        </style>\n"
    \o "    "

(* lines 74-133: a (re)run of the script draws the page and reads the widgets *)
Page(m) ==
    <<[kind |-> "set_page_config", text |-> ""],
      [kind |-> "markdown", text |-> StyleSheet],
      [kind |-> "sidebar.radio", text |-> "Choose Theme"],
      [kind |-> "markdown", text |-> "<div class=\"" \o theme_class(m) \o " fade-in\">"],
      [kind |-> "title", text |-> "\\U0001f50d AI Market Research Bot"],
      [kind |-> "markdown",
       text |-> "## Easily analyze market competition using AI-powered insights."],
      [kind |-> "markdown", text |-> "### \\U0001f50e Enter a keyword for analysis"],
      [kind |-> "text_input", text |-> "Keyword:"],
      [kind |-> "button", text |-> "\\U0001f680 Analyze"]>>

Rerun ==
    /\ pc \in {"idle", "done", "aborted"}
    /\ \E m \in Modes, q \in Queries, b \in BOOLEAN :
         /\ mode' = m
         /\ query' = q
         /\ analyze_button' = b
         /\ screen' = Page(m)
         /\ pc' = AfterInputs(b, q)
    /\ response' = NoResponse
    /\ data' = <<>>
    /\ summary' = ""
    /\ chat' = NoCompletion
    /\ gets' = <<>>
    /\ prompts' = <<>>
    /\ events' = <<>>
    /\ UNCHANGED <<csvFile, jsonFile, good, csv_quotes_cr>>

(* line 138: data = get_search_results(query), the GET is answered *)
Search ==
    /\ pc = "search"
    /\ \E resp \in Responses :
         \E r \in {get_search_results(query, num_results, resp)} :
         /\ response' = resp
         /\ data' = r.ret
         /\ gets' = gets \o r.requests
         /\ events' = events \o r.effects
         /\ screen' = screen \o r.shown
         /\ pc' = AfterSearch(r.ret)
    /\ UNCHANGED <<mode, query, analyze_button, summary, chat, prompts, csvFile,
                   jsonFile, good, csv_quotes_cr>>

(* line 22: requests.get raises (no connection); the exception leaves main() *)
SearchRaises ==
    /\ pc = "search"
    /\ gets' = gets \o <<Params(query, num_results)>>
    /\ events' = events \o <<"requests.get">>
    /\ screen' = screen \o <<[kind |-> "exception", text |-> "ConnectionError"]>>
    /\ pc' = "aborted"
    /\ UNCHANGED <<mode, query, analyze_button, response, data, summary, chat, prompts,
                   csvFile, jsonFile, good, csv_quotes_cr>>

(* line 143: summary = summarize_data(data) *)
Summarize ==
    /\ pc = "summarize"
    /\ \E c \in Completions :
         \E r \in {summarize_data(data, c)} :
         /\ summary' = r.ret
         /\ chat' = c
         /\ prompts' = prompts \o r.requests
         /\ events' = events \o r.effects
         /\ good' = [data |-> data, summary |-> r.ret]
    /\ pc' = AfterStep(pc)
    /\ UNCHANGED <<mode, query, analyze_button, response, data, gets, screen,
                   csvFile, jsonFile, csv_quotes_cr>>

(* line 144: save_results(data, summary) *)
Save ==
    /\ pc = "save"
    /\ \E w \in {save_results(data, summary)} :
         /\ csvFile' = w.csv
         /\ jsonFile' = w.json
         /\ events' = events \o w.effects
    /\ pc' = AfterStep(pc)
    /\ UNCHANGED <<mode, query, analyze_button, response, data, summary, chat, gets,
                   prompts, screen, good, csv_quotes_cr>>

(* lines 146-147: the report heading and the summary *)
ReportElement(m, s) ==
    [kind |-> "report",
     text |-> "<div class='" \o theme_class(m) \o " fade-in'>" \o s \o "</div>"]

RenderReport ==
    /\ pc = "report"
    /\ screen' = screen \o <<[kind |-> "markdown", text |-> "## \\U0001f4ca AI Competitive Analysis Report"],
                             ReportElement(mode, summary)>>
    /\ events' = events \o <<"st.markdown:report">>
    /\ pc' = AfterStep(pc)
    /\ UNCHANGED <<mode, query, analyze_button, response, data, summary, chat, gets,
                   prompts, csvFile, jsonFile, good, csv_quotes_cr>>

(* lines 149-151: df = pd.DataFrame(data); st.table(df) *)
RenderTable ==
    /\ pc = "table"
    /\ screen' = screen \o <<[kind |-> "markdown", text |-> "### \\U0001f4cc Competitor Data"],
                             [kind |-> "table", df |-> DataFrame(data)]>>
    /\ events' = events \o <<"st.table">>
    /\ pc' = AfterStep(pc)
    /\ UNCHANGED <<mode, query, analyze_button, response, data, summary, chat, gets,
                   prompts, csvFile, jsonFile, good, csv_quotes_cr>>

(* line 153: visualize_data(data) *)
RenderChart ==
    /\ pc = "chart"
    /\ screen' = screen \o <<visualize_data(data)>>
    /\ events' = events \o <<"st.pyplot">>
    /\ pc' = AfterStep(pc)
    /\ UNCHANGED <<mode, query, analyze_button, response, data, summary, chat, gets,
                   prompts, csvFile, jsonFile, good, csv_quotes_cr>>

(* lines 155-161: csv = df.to_csv(index=False).encode("utf-8"); download button *)
DownloadElement(d) ==
    [kind      |-> "download_button",
     data      |-> encode(to_csv(DataFrame(d))),
     file_name |-> "competitive_analysis.csv",
     mime      |-> "text/csv"]

RenderDownload ==
    /\ pc = "download"
    /\ screen' = screen \o <<DownloadElement(data)>>
    /\ events' = events \o <<"st.download_button">>
    /\ pc' = AfterStep(pc)
    /\ UNCHANGED <<mode, query, analyze_button, response, data, summary, chat, gets,
                   prompts, csvFile, jsonFile, good, csv_quotes_cr>>

(* line 163: st.warning *)
Warn ==
    /\ pc = "warn"
    /\ screen' = screen \o <<[kind |-> "warning", text |-> WarningText]>>
    /\ events' = events \o <<"st.warning">>
    /\ pc' = "close"
    /\ UNCHANGED <<mode, query, analyze_button, response, data, summary, chat, gets,
                   prompts, csvFile, jsonFile, good, csv_quotes_cr>>

(* line 164: the closing markup, rendered by every run that reaches it *)
Close ==
    /\ pc = "close"
    /\ screen' = screen \o <<[kind |-> "markdown", text |-> "</div>"]>>
    /\ pc' = AfterStep(pc)
    /\ UNCHANGED <<mode, query, analyze_button, response, data, summary, chat, gets,
                   prompts, events, csvFile, jsonFile, good, csv_quotes_cr>>

(* the statements main() runs once the search has returned *)
Step ==
    \/ Summarize
    \/ Save
    \/ RenderReport
    \/ RenderTable
    \/ RenderChart
    \/ RenderDownload
    \/ Warn
    \/ Close

Next ==
    \/ Rerun
    \/ Search
    \/ SearchRaises
    \/ Step

Spec == Init /\ [][Next]_vars

(* the script runs to its end once the search call has returned *)
FairSpec == Spec /\ WF_vars(Step)

-----------------------------------------------------------------------------
(* Vocabulary of the properties *)

Shown(k) == \E i \in DOMAIN screen : screen[i].kind = k

Elements(k) == { screen[i] : i \in { j \in DOMAIN screen : screen[j].kind = k } }

Count(seq, x) == Cardinality({ i \in DOMAIN seq : seq[i] = x })

IsPrefix(a, b) == Len(a) <= Len(b) /\ a = SubSeq(b, 1, Len(a))

Pressed == analyze_button /\ query # ""

Finished == pc = "done"

ReportKinds == {"report", "table", "pyplot", "download_button"}

ReportRendered == \A k \in ReportKinds : Shown(k)

WriteEffects == {"to_csv", "json.dump"}

Did(e) == \E i \in DOMAIN events : events[i] = e

(* the effects of a run that renders a report, in the order the claim gives *)
ReportRun ==
    <<"requests.get", "response.json", "openai.create", "to_csv", "json.dump",
      "st.markdown:report", "st.table", "st.pyplot", "st.download_button">>

WarningRun(first) == first \o <<"st.warning">>

-----------------------------------------------------------------------------
(* C1: in a run with the button pressed, a keyword and at least one row,   *)
(* the effects happen in the fixed order search, summarization, write to   *)
(* disk, report text, table, chart, download button: at every point of the *)
(* run the effects so far are a prefix of that order, the finished run has *)
(* all of them, and nothing of the report is on screen and nothing is      *)
(* written before the summarization call has returned.                     *)
C1_FixedOrder ==
    (Pressed /\ data # <<>>) =>
        /\ IsPrefix(events, ReportRun)
        /\ (Finished => events = ReportRun)
        /\ ((\E k \in ReportKinds : Shown(k)) => Did("openai.create") /\ chat # NoCompletion)
        /\ ((\E e \in WriteEffects : Did(e)) => Did("openai.create") /\ chat # NoCompletion)

C1_Witness ==
    /\ Finished /\ Pressed /\ data # <<>>
    /\ events = ReportRun
    /\ ReportRendered

(* C2: no retry: a run sends at most one GET to the search API and at most *)
(* one request to the summarization API, whatever the calls answer.        *)
C2_NoRetry ==
    /\ Len(gets) <= 1
    /\ Len(prompts) <= 1
    /\ Count(events, "requests.get") <= 1
    /\ Count(events, "openai.create") <= 1
    /\ (pc \in {"done", "aborted"} /\ Pressed => Len(gets) = 1)
    /\ (Finished /\ data # <<>> => Len(prompts) = 1)

C2_Witness ==
    /\ Finished
    /\ Len(gets) = 1
    /\ Len(prompts) = 1
    /\ chat.kind = "raise"

(* C3: for a 200 response the rows are the organic results, one row per    *)
(* entry in the same order, each with exactly the keys Title, Link and     *)
(* Snippet, holding the entry's value or the default; no organic_results   *)
(* key gives no rows.                                                      *)
C3_RowsOfResponse ==
    (response.status_code = 200) =>
        /\ ("organic_results" \notin DOMAIN response.body => data = <<>>)
        /\ ("organic_results" \in DOMAIN response.body =>
              LET org == response.body.organic_results IN
              /\ Len(data) = Len(org)
              /\ \A i \in 1..Len(org) :
                   /\ DOMAIN data[i] = {"Title", "Link", "Snippet"}
                   /\ data[i].Title =
                        (IF "title" \in DOMAIN org[i] THEN org[i].title ELSE "No title")
                   /\ data[i].Link =
                        (IF "link" \in DOMAIN org[i] THEN org[i].link ELSE "No link")
                   /\ data[i].Snippet =
                        (IF "snippet" \in DOMAIN org[i] THEN org[i].snippet
                         ELSE "No description available"))

C3_Witness ==
    /\ response.status_code = 200
    /\ Len(data) = 2
    /\ data[1] = [Title |-> "Acme", Link |-> "No link", Snippet |-> "CRM \"suite\", fast"]
    /\ data[2] = [Title |-> "No title", Link |-> "bolt.dev",
                  Snippet |-> "No description available"]

(* C4: in a run that renders a report, what is on disk is what is shown:   *)
(* the JSON file is the dump of {"results": rows, "summary": summary} for  *)
(* the rows of the table and the summary of the report, and the CSV file   *)
(* has the content of the CSV behind the download button.                  *)
C4_DiskEqualsScreen ==
    /\ \A r \in Elements("report") :
         /\ r = ReportElement(mode, summary)
         /\ jsonFile = encode(json_dump([results |-> data, summary |-> summary]))
    /\ \A t \in Elements("table") :
         /\ t.df.columns = <<"Title", "Link", "Snippet">>
         /\ Len(t.df.values) = Len(data)
         /\ \A i \in 1..Len(data) :
              t.df.values[i] = <<data[i].Title, data[i].Link, data[i].Snippet>>
         /\ jsonFile = encode(json_dump([results |-> data, summary |-> summary]))
    /\ \A b \in Elements("download_button") :
         /\ b.data = csvFile
         /\ b.data # Absent
    /\ (Finished /\ Shown("report") => ReportRendered)

C4_Witness ==
    /\ Finished
    /\ ReportRendered
    /\ Len(data) = 2
    /\ csvFile.text = "Title,Link,Snippet\nNo title,bolt.dev,No description available\nAcme,No link,\"CRM \"\"suite\"\", fast\"\n"

(* C5: a failure of the summarization call does not leave summarize_data:  *)
(* the summary is then the text "Error generating AI summary: <error>",    *)
(* and the run goes on as after a successful call: the text is saved as    *)
(* the summary of the JSON file and rendered as the report.                *)
C5_ErrorIsSummary ==
    (chat.kind = "raise") =>
        /\ summary = "Error generating AI summary: " \o chat.error
        /\ pc \notin {"aborted", "warn"}
        /\ IsPrefix(events, ReportRun)
        /\ (Finished =>
              /\ events = ReportRun
              /\ jsonFile = encode(json_dump([results |-> data, summary |-> summary]))
              /\ Elements("report") = {ReportElement(mode, summary)}
              /\ ReportRendered)

C5_Witness ==
    /\ Finished
    /\ chat.kind = "raise"
    /\ summary = "Error generating AI summary: Connection error: C:\\x86"
    /\ ReportRendered
    /\ Len(jsonFile.text) > 73
    /\ SubSeq(jsonFile.text, Len(jsonFile.text) - 72, Len(jsonFile.text))
         = "    \"summary\": \"Error generating AI summary: Connection error: C:\\\\x86\"\n}"

(* C6: the summarization API is never called for an empty result list:     *)
(* summarize_data of the empty list is the fixed text, with no request,    *)
(* and a run of main() calls summarize_data only with rows, so each        *)
(* summary of a run comes from a request and is never the fixed text.      *)
C6_NoCallOnEmpty ==
    /\ \A c \in Completions :
         LET r == summarize_data(<<>>, c) IN
         r.ret = "No relevant data found for analysis." /\ r.requests = <<>>
    /\ (prompts # <<>> \/ chat # NoCompletion \/ Did("openai.create") =>
          data # <<>> /\ Len(prompts) = 1 /\ Did("openai.create"))
    /\ summary # "No relevant data found for analysis."
    /\ (data = <<>> => summary = "" /\ prompts = <<>>)

C6_Witness ==
    /\ Finished /\ Pressed
    /\ response.status_code = 200
    /\ "organic_results" \in DOMAIN response.body
    /\ data = <<>>
    /\ prompts = <<>>
    /\ Shown("warning")

(* C7: a status other than 200 makes get_search_results show the error and *)
(* return no rows without reading the body; the run then only shows the    *)
(* "No results found" warning: no summarization call, no write, no report, *)
(* table, chart or download button.  A 200 response without organic        *)
(* results ends the same way, without the error.                           *)
C7_WarningOnly ==
    /\ (response.status_code \notin {0, 200} =>
          /\ data = <<>>
          /\ Elements("error") = {[kind |-> "error", text |-> ErrorFetching]}
          /\ ~Did("response.json")
          /\ IsPrefix(events, WarningRun(<<"requests.get", "st.error">>))
          /\ (Finished => events = WarningRun(<<"requests.get", "st.error">>)))
    /\ (response.status_code = 200 /\ data = <<>> =>
          /\ ~Shown("error")
          /\ IsPrefix(events, WarningRun(<<"requests.get", "response.json">>))
          /\ (Finished => events = WarningRun(<<"requests.get", "response.json">>)))
    /\ (response # NoResponse /\ data = <<>> =>
          /\ prompts = <<>>
          /\ \A k \in ReportKinds : ~Shown(k)
          /\ (Finished => Elements("warning") = {[kind |-> "warning", text |-> WarningText]}))

C7_Witness ==
    /\ Finished
    /\ response.status_code = 401
    /\ "organic_results" \in DOMAIN response.body
    /\ response.body.organic_results # <<>>
    /\ Shown("error") /\ Shown("warning")

(* C8: between runs the two files hold the rows and the summary of the     *)
(* most recent run whose search returned rows (or do not exist when there  *)
(* was none): such a run overwrites both, any other run leaves both as     *)
(* they were.                                                              *)
C8_DiskIsLastGoodRun ==
    (pc \in {"idle", "done", "aborted"}) =>
        IF good = NoGood
        THEN csvFile = Absent /\ jsonFile = Absent
        ELSE /\ csvFile = encode(to_csv(DataFrame(good.data)))
             /\ jsonFile = encode(json_dump([results |-> good.data,
                                             summary |-> good.summary]))
             /\ (data # <<>> /\ Finished => good = [data |-> data, summary |-> summary])

C8_Witness ==
    /\ Finished /\ Pressed
    /\ data = <<>>
    /\ Shown("warning")
    /\ good.data # <<>>
    /\ jsonFile = encode(json_dump([results |-> good.data, summary |-> good.summary]))

(* C9: a run without the button pressed, or with an empty keyword, sends   *)
(* no request, writes nothing and shows neither report nor warning.        *)
C9_NothingWithoutInput ==
    (pc # "idle" /\ ~Pressed) =>
        /\ gets = <<>>
        /\ prompts = <<>>
        /\ events = <<>>
        /\ pc \in {"close", "done"}
        /\ \A k \in ReportKinds \cup {"warning", "error"} : ~Shown(k)

C9_Witness ==
    /\ Finished
    /\ analyze_button
    /\ query = ""
    /\ good.data # <<>>

(* C10: a run with the button pressed and a keyword whose search call      *)
(* returned ends, and it ends with exactly one of: the report rendered     *)
(* (exactly when there are rows), the warning shown (exactly when there    *)
(* are none); also when the summarization call raised.                     *)
C10_Outcome ==
    (Finished /\ Pressed) =>
        /\ (ReportRendered <=> data # <<>>)
        /\ (Shown("warning") <=> data = <<>>)
        /\ ((\E k \in ReportKinds : Shown(k)) <=> ~Shown("warning"))

(* C10, with termination: the outcome above always holds, and a run whose  *)
(* search has returned reaches its end.                                    *)
C10_OneOutcome ==
    /\ []C10_Outcome
    /\ (pc \in {"summarize", "warn"}) ~> Finished

C10_Witness ==
    /\ Finished /\ Pressed
    /\ chat.kind = "raise"
    /\ ReportRendered
    /\ ~Shown("warning")

=============================================================================
